---------------------------- MODULE Spec2Model ----------------------------
(***************************************************************************)
(* Model of the sales-enablement rule engine and aggregator                *)
(* (rules.py, analytics.py, domain.py, app.py).                            *)
(*                                                                         *)
(* Representation of values                                                *)
(*   - notes and stage are Python str values on which the code works       *)
(*     character by character (lower(), regex tokenisation, substring      *)
(*     search): they are sequences of one-character strings.               *)
(*   - account_name, reasons and next steps are only copied or             *)
(*     interpolated: they are atomic strings.  Non-ASCII punctuation of    *)
(*     the literals (en dash, curly apostrophe) is written in ASCII.       *)
(*   - probability is a real number; it is carried in thousandths          *)
(*     (0.20 is 200), so every comparison of the code with 0.20, 0.30 and  *)
(*     0.60 is exact.  amount is carried in whole currency units.          *)
(*   - a multi-line text (the email body) is the sequence of its lines,    *)
(*     a line the sequence of the string pieces it is concatenated from.   *)
(*   - a cell of the DataFrame is [kind, num, text]: kind "num" with its   *)
(*     number, "text" for a string that is no number, "nan" for a missing  *)
(*     value; a row is a function from the columns of the frame to cells.  *)
(***************************************************************************)
EXTENDS Integers, Sequences, FiniteSets, TLC

VARIABLES
    opp,        \* the Opportunity handed to the rule functions
    risk,       \* RiskAssessment (result of assess_risk, or the one passed in)
    action,     \* RecommendedAction (result of recommend_actions, or passed in)
    email,      \* EmailSuggestion returned by suggest_email
    pc,         \* position in the per-record body of build_insights
    opps,       \* List[Opportunity] handed to the aggregator
    risks,      \* List[RiskAssessment] handed to risk_distribution
    kpis,       \* result of compute_basic_kpis
    summary,    \* result of stage_summary (rows of the DataFrame, in order)
    dist,       \* result of risk_distribution
    computed,   \* which of kpis, summary and dist have been computed
    csv,        \* the DataFrame read by load_opportunities_from_csv
    opportunities,  \* the local list of load_opportunities_from_csv
    insights,   \* the local list of build_insights
    result,     \* what build_insights returned to its caller
    error       \* the exception raised to the caller, <<>> when none

vars == <<opp, risk, action, email, pc, opps, risks, kpis, summary, dist, computed,
          csv, opportunities, insights, result, error>>

\* A result that has not been computed yet.
None == "None"

Min(a, b) == IF a <= b THEN a ELSE b

(***************************************************************************)
(* str.lower() and the regex class \w on the characters the model uses.    *)
(***************************************************************************)
UpperChars ==
    <<"A","B","C","D","E","F","G","H","I","J","K","L","M",
      "N","O","P","Q","R","S","T","U","V","W","X","Y","Z">>

LowerChars ==
    <<"a","b","c","d","e","f","g","h","i","j","k","l","m",
      "n","o","p","q","r","s","t","u","v","w","x","y","z">>

Digits == {"0","1","2","3","4","5","6","7","8","9"}

Range(s) == {s[i] : i \in DOMAIN s}

LowerChar(c) ==
    IF \E i \in DOMAIN UpperChars : UpperChars[i] = c
    THEN LowerChars[CHOOSE i \in DOMAIN UpperChars : UpperChars[i] = c]
    ELSE c

\* str.lower()
Lower(s) == [i \in DOMAIN s |-> LowerChar(s[i])]

\* \w : letters, digits and the underscore
IsWordChar(c) == c \in Range(UpperChars) \cup Range(LowerChars) \cup Digits \cup {"_"}

\* re.findall(r"\b\w+\b", s): the maximal runs of word characters, in order.
\* cur is the run being read, acc the runs already closed.
RECURSIVE FindTokens(_, _, _)
FindTokens(s, cur, acc) ==
    IF s = <<>>
    THEN IF cur = <<>> THEN acc ELSE Append(acc, cur)
    ELSE IF IsWordChar(Head(s))
         THEN FindTokens(Tail(s), Append(cur, Head(s)), acc)
         ELSE FindTokens(Tail(s), <<>>,
                         IF cur = <<>> THEN acc ELSE Append(acc, cur))

Tokens(s) == FindTokens(s, <<>>, <<>>)

\* Python's  sub in s  on strings
IsSubstring(sub, s) ==
    \E i \in 0..(Len(s) - Len(sub)) : SubSeq(s, i + 1, i + Len(sub)) = sub

NEGATIVE_SINGLE_WORDS ==
    << <<"d","e","l","a","y">>,
       <<"c","o","n","c","e","r","n">>,
       <<"b","u","d","g","e","t">>,
       <<"e","x","p","e","n","s","i","v","e">>,
       <<"c","o","m","p","e","t","i","t","o","r">>,
       <<"r","i","s","k">>,
       <<"b","l","o","c","k","e","d">>,
       <<"p","a","u","s","e">>,
       <<"h","o","l","d">> >>

NEGATIVE_PHRASES ==
    << <<"o","n"," ","h","o","l","d">>,
       <<"n","o"," ","d","e","c","i","s","i","o","n">>,
       <<"n","o","t"," ","m","o","v","i","n","g">>,
       <<"n","o","t"," ","a"," ","p","r","i","o","r","i","t","y">>,
       <<"r","e","-","o","r","g">>,
       <<"r","e","o","r","g">> >>

\* rules.py _has_negative_signals
_has_negative_signals(notes) ==
    LET notes_lower == Lower(notes)
        tokens == Tokens(notes_lower)
    IN  IF \E k \in DOMAIN NEGATIVE_SINGLE_WORDS :
              NEGATIVE_SINGLE_WORDS[k] \in Range(tokens)
        THEN TRUE
        ELSE IF \E k \in DOMAIN NEGATIVE_PHRASES :
                   IsSubstring(NEGATIVE_PHRASES[k], notes_lower)
             THEN TRUE
             ELSE FALSE

(***************************************************************************)
(* rules.py assess_risk                                                    *)
(***************************************************************************)
HealthyReason == "No major risk signals detected (healthy engagement, good probability)."
NoSignalReason == "No major risk signals detected."
VeryLowProbReason == "Very low win probability (< 20%)."
LowProbReason == "Low win probability (20-30%)."
Stuck45Reason == "Stuck in current stage for > 45 days."
Stage30Reason == "In current stage for > 30 days."
Contact30Reason == "No recent contact for > 30 days."
Contact14Reason == "No recent contact for > 14 days."
NotesReason == "Negative sentiment or blockers mentioned in notes."

\* a variant of the healthy condition that does not look at the notes
IsHealthyIgnoringNotes(o) ==
    /\ o.probability >= 600
    /\ o.days_in_stage <= 7
    /\ o.last_contact_days_ago <= 7

\* the condition of the healthy early return
IsHealthy(o) ==
    /\ o.probability >= 600
    /\ o.days_in_stage <= 7
    /\ o.last_contact_days_ago <= 7
    /\ ~_has_negative_signals(o.notes)

\* a variant with the first threshold not strict
ProbabilityReasonsNotStrict(o) ==
    IF o.probability <= 200 THEN <<VeryLowProbReason>>
    ELSE IF o.probability < 300 THEN <<LowProbReason>>
    ELSE <<>>

ProbabilityReasons(o) ==
    IF o.probability < 200 THEN <<VeryLowProbReason>>
    ELSE IF o.probability < 300 THEN <<LowProbReason>>
    ELSE <<>>

StageReasons(o) ==
    IF o.days_in_stage > 45 THEN <<Stuck45Reason>>
    ELSE IF o.days_in_stage > 30 THEN <<Stage30Reason>>
    ELSE <<>>

ContactReasons(o) ==
    IF o.last_contact_days_ago > 30 THEN <<Contact30Reason>>
    ELSE IF o.last_contact_days_ago > 14 THEN <<Contact14Reason>>
    ELSE <<>>

NotesReasons(o) ==
    IF _has_negative_signals(o.notes) THEN <<NotesReason>> ELSE <<>>

\* the list built by the four appends, in the order of the code
BuildReasons(o) ==
    ProbabilityReasons(o) \o StageReasons(o) \o ContactReasons(o) \o NotesReasons(o)

\* a variant that decides High on the number of reasons alone
DecideLevelByScore(o, reasons) ==
    LET score == Len(reasons)
    IN  IF score >= 3
        THEN [level |-> "High", reasons |-> reasons]
        ELSE IF score >= 1
             THEN [level |-> "Medium", reasons |-> reasons]
             ELSE [level |-> "Low", reasons |-> <<NoSignalReason>>]

\* the mapping of the reasons to a level
DecideLevel(o, reasons) ==
    LET score == Len(reasons)
    IN  IF \/ score >= 3
           \/ /\ o.probability < 200
              /\ (o.days_in_stage > 30 \/ o.last_contact_days_ago > 14)
        THEN [level |-> "High", reasons |-> reasons]
        ELSE IF score >= 1
             THEN [level |-> "Medium", reasons |-> reasons]
             ELSE [level |-> "Low", reasons |-> <<NoSignalReason>>]

\* a variant whose healthy return carries the accumulated reasons
assess_riskAccumulated(o) ==
    IF IsHealthy(o)
    THEN [level |-> "Low", reasons |-> BuildReasons(o)]
    ELSE DecideLevel(o, BuildReasons(o))

assess_risk(o) ==
    IF IsHealthy(o)
    THEN [level |-> "Low", reasons |-> <<HealthyReason>>]
    ELSE DecideLevel(o, BuildReasons(o))


(***************************************************************************)
(* rules.py recommend_actions                                              *)
(***************************************************************************)
HighSteps ==
    <<"Schedule a call with the customer within 24-48 hours",
      "Escalate internally and align on a clear win strategy">>

MediumSteps ==
    <<"Book a follow-up meeting this week",
      "Clarify decision timeline and remaining blockers">>

LowSteps ==
    <<"Maintain regular touchpoints; confirm next milestone",
      "Explore potential upsell or cross-sell opportunity">>

PricingStep == "Review pricing and commercial terms for potential objections"
ReengageStep == "Acknowledge delay in communication and re-engage with value"

PricingStages ==
    { <<"n","e","g","o","t","i","a","t","i","o","n">>,
      <<"p","r","o","p","o","s","a","l">> }

\* a variant whose Medium branch sets the priority of the else branch
BaseActionSwapped(r) ==
    IF r.level = "High"
    THEN [priority |-> "High", next_steps |-> HighSteps]
    ELSE IF r.level = "Medium"
         THEN [priority |-> "Low", next_steps |-> MediumSteps]
         ELSE [priority |-> "Low", next_steps |-> LowSteps]

\* the if / elif / else on risk.level: the priority and its two base steps
BaseAction(r) ==
    IF r.level = "High"
    THEN [priority |-> "High", next_steps |-> HighSteps]
    ELSE IF r.level = "Medium"
         THEN [priority |-> "Medium", next_steps |-> MediumSteps]
         ELSE [priority |-> "Low", next_steps |-> LowSteps]

\* a variant that compares the stage without lower()
StageStepsCaseSensitive(o) ==
    IF o.stage \in PricingStages THEN <<PricingStep>> ELSE <<>>

StageSteps(o) ==
    IF Lower(o.stage) \in PricingStages THEN <<PricingStep>> ELSE <<>>

StalenessSteps(o) ==
    IF o.last_contact_days_ago > 21 THEN <<ReengageStep>> ELSE <<>>

recommend_actions(o, r) ==
    LET base == BaseAction(r)
    IN  [priority |-> base.priority,
         next_steps |-> base.next_steps \o StageSteps(o) \o StalenessSteps(o)]

(***************************************************************************)
(* rules.py suggest_email                                                  *)
(***************************************************************************)
\* concatenation of two multi-line texts: the last line of a and the first
\* line of b become one line
Cat(a, b) ==
    SubSeq(a, 1, Len(a) - 1) \o <<a[Len(a)] \o b[1]>> \o Tail(b)

EmptyText == << <<>> >>

\* "\n".join(texts)
RECURSIVE JoinLines(_)
JoinLines(texts) ==
    IF texts = <<>> THEN EmptyText
    ELSE IF Len(texts) = 1 THEN texts[1]
    ELSE Cat(Cat(texts[1], << <<>>, <<>> >>), JoinLines(Tail(texts)))

\* f"- {step}"
Bullet(step) == << <<"- ", step>> >>

\* a variant without the slice
FirstTwoUnsliced(steps) == steps

\* action.next_steps[:2]
FirstTwo(steps) == SubSeq(steps, 1, Min(2, Len(steps)))

Subject(o) == <<"Next steps on our ", Lower(o.stage), " for ", o.account_name>>

Intro(o) ==
    << <<"Hi ", o.account_name, " team,">>,
       <<>>,
       <<"I hope you're doing well. I wanted to follow up on our recent discussions ",
         "about your interest in moving forward with our solution.">> >>

Middle(r) ==
    IF r.level = "High"
    THEN << <<>>, <<>>,
            <<"From our last conversation, it sounds like there are a few open questions ",
              "or concerns that we should address directly so you can make a confident decision.">> >>
    ELSE IF r.level = "Medium"
         THEN << <<>>, <<>>,
                 <<"I know you're evaluating options, and I'd like to make sure you have ",
                   "everything you need to move forward comfortably.">> >>
         ELSE << <<>>, <<>>,
                 <<"Thanks again for the positive engagement so far. I'd like to keep your ",
                   "project moving smoothly toward the next milestone.">> >>

Closing(a) ==
    LET bullet_steps == FirstTwo(a.next_steps)
        bullets == JoinLines([i \in DOMAIN bullet_steps |-> Bullet(bullet_steps[i])])
    IN  Cat(Cat(<< <<>>, <<>>,
                   <<"Here are a couple of concrete next steps I'd propose:">>,
                   <<>> >>,
                bullets),
            << <<>>, <<>>,
               <<"Would any of these work for you this week? If there's someone else on your side ",
                 "who should be involved, I'm happy to loop them in.">>,
               <<>>,
               <<"Best regards,">>,
               <<"Onyero">> >>)

suggest_email(o, r, a) ==
    [subject |-> Subject(o),
     body |-> Cat(Cat(Intro(o), Middle(r)), Closing(a))]

(***************************************************************************)
(* analytics.py                                                            *)
(***************************************************************************)
\* Python's sum() over a list of numbers
RECURSIVE SumSeq(_)
SumSeq(s) == IF s = <<>> THEN 0 ELSE Head(s) + SumSeq(Tail(s))

RECURSIVE GCD(_, _)
GCD(a, b) == IF b = 0 THEN a ELSE GCD(b, a % b)

\* the quotient n / d of true division, as a fraction in lowest terms (d > 0)
Rat(n, d) ==
    LET g == GCD(n, d)
    IN  [num |-> n \div g, den |-> d \div g]

\* a variant that averages with floor division
compute_basic_kpisFloor(os) ==
    IF os = <<>>
    THEN [total_opportunities |-> 0,
          total_pipeline |-> 0,
          weighted_pipeline |-> 0,
          avg_days_in_stage |-> Rat(0, 1)]
    ELSE [total_opportunities |-> Len(os),
          total_pipeline |-> SumSeq([i \in DOMAIN os |-> os[i].amount]),
          weighted_pipeline |->
              SumSeq([i \in DOMAIN os |-> os[i].amount * os[i].probability]),
          avg_days_in_stage |->
              Rat(SumSeq([i \in DOMAIN os |-> os[i].days_in_stage]) \div Len(os), 1)]

\* weighted_pipeline is a sum of amount * probability, so it is carried in
\* thousandths of a currency unit like probability
compute_basic_kpis(os) ==
    IF os = <<>>
    THEN [total_opportunities |-> 0,
          total_pipeline |-> 0,
          weighted_pipeline |-> 0,
          avg_days_in_stage |-> Rat(0, 1)]
    ELSE [total_opportunities |-> Len(os),
          total_pipeline |-> SumSeq([i \in DOMAIN os |-> os[i].amount]),
          weighted_pipeline |->
              SumSeq([i \in DOMAIN os |-> os[i].amount * os[i].probability]),
          avg_days_in_stage |->
              Rat(SumSeq([i \in DOMAIN os |-> os[i].days_in_stage]), Len(os))]

\* the key by which groupby("stage") separates the rows
GroupKey(o) == o.stage

\* a variant that aggregates total_amount with "first" instead of "sum"
GroupRowFirst(os, k) ==
    LET members == SelectSeq(os, LAMBDA o : GroupKey(o) = k)
    IN  [stage |-> k,
         count |-> Len(members),
         total_amount |-> members[1].amount]

\* one row of the grouped frame: agg(count = size, total_amount = sum)
GroupRow(os, k) ==
    LET members == SelectSeq(os, LAMBDA o : GroupKey(o) = k)
    IN  [stage |-> k,
         count |-> Len(members),
         total_amount |-> SumSeq([i \in DOMAIN members |-> members[i].amount])]

GroupRows(os) == {GroupRow(os, GroupKey(os[i])) : i \in DOMAIN os}

\* sort_values("total_amount", ascending=False)
IsDescending(rows) ==
    \A i, j \in DOMAIN rows : i < j => rows[i].total_amount >= rows[j].total_amount

\* The frames stage_summary may return: the grouped rows by descending
\* total_amount.  The default sort of sort_values is not stable, so rows of
\* equal total_amount may come in any order.
stage_summary(os) ==
    IF os = <<>>
    THEN {<<>>}
    ELSE LET rows == GroupRows(os)
             n == Cardinality(rows)
         IN  {f \in [1..n -> rows] :
                  /\ \A i, j \in 1..n : i # j => f[i] # f[j]
                  /\ IsDescending(f)}

\* a variant that ignores a level that is not a key yet
CountLevelKnown(counts, level) ==
    IF level \in DOMAIN counts
    THEN [counts EXCEPT ![level] = @ + 1]
    ELSE counts

\* counts[level] += 1, the key being added when it is not there yet
CountLevel(counts, level) ==
    IF level \in DOMAIN counts
    THEN [counts EXCEPT ![level] = @ + 1]
    ELSE [k \in DOMAIN counts \cup {level} |->
              IF k = level THEN 0 + 1 ELSE counts[k]]

RECURSIVE CountLevels(_, _)
CountLevels(rs, counts) ==
    IF rs = <<>> THEN counts
    ELSE CountLevels(Tail(rs), CountLevel(counts, Head(rs).level))

\* a variant whose base mapping lacks the High key
risk_distributionNoHigh(os, rs) ==
    CountLevels(rs, [k \in {"Low", "Medium"} |-> 0])

risk_distribution(os, rs) ==
    CountLevels(rs, [k \in {"Low", "Medium", "High"} |-> 0])

(***************************************************************************)
(* ingestion.py                                                            *)
(***************************************************************************)
\* p is in thousandths, so 1.0 is 1000 and p / 100.0 is p \div 100 (the raw
\* values of the model are multiples of 0.1, for which the quotient is exact)
_normalize_probability(p) ==
    IF p > 1000 THEN p \div 100 ELSE p

required_cols ==
    <<"id", "account_name", "stage", "amount", "probability",
      "days_in_stage", "last_contact_days_ago", "notes">>

\* a variant that reports the first missing column only
MissingColumnsFirst(columns) ==
    LET missing == SelectSeq(required_cols, LAMBDA c : c \notin columns)
    IN  IF missing = <<>> THEN <<>> ELSE <<missing[1]>>

\* missing = [c for c in required_cols if c not in df.columns]
MissingColumns(columns) == SelectSeq(required_cols, LAMBDA c : c \notin columns)

\* float(cell) raises ValueError on a string that is no number
FloatFails(cell) == cell.kind = "text"

\* int(cell) raises ValueError on a string that is no integer and on NaN
IntFails(cell) == cell.kind \in {"text", "nan"}

\* the conversions of one row in the order of the code; the column of the
\* first one that raises, "" when none does
FirstFailure(row) ==
    IF FloatFails(row["probability"]) THEN "probability"
    ELSE IF FloatFails(row["amount"]) THEN "amount"
    ELSE IF IntFails(row["days_in_stage"]) THEN "days_in_stage"
    ELSE IF IntFails(row["last_contact_days_ago"]) THEN "last_contact_days_ago"
    ELSE ""

\* str(cell): the text of a string cell, "nan" for a missing value
StrCell(cell) == IF cell.kind = "nan" THEN <<"n","a","n">> ELSE cell.text

\* str(row["notes"]) if not pd.isna(row["notes"]) else ""
NotesCell(cell) == IF cell.kind = "nan" THEN <<>> ELSE StrCell(cell)

\* the Opportunity built from a row whose conversions succeed
RowToOpportunity(row) ==
    [id |-> row["id"].text,
     account_name |-> row["account_name"].text,
     stage |-> StrCell(row["stage"]),
     amount |-> row["amount"].num,
     probability |-> _normalize_probability(row["probability"].num),
     days_in_stage |-> row["days_in_stage"].num,
     last_contact_days_ago |-> row["last_contact_days_ago"].num,
     notes |-> NotesCell(row["notes"])]

\* a variant that puts the new element first
AppendToListFront(list, x) == <<x>> \o list

\* list.append(x)
AppendToList(list, x) == Append(list, x)

\* app.py build_insights, the body of the loop for one record
Insight(o) ==
    LET r == assess_risk(o)
        a == recommend_actions(o, r)
        e == suggest_email(o, r, a)
    IN  [opportunity |-> o, risk |-> r, action |-> a, email |-> e]

(***************************************************************************)
(* Inputs                                                                  *)
(***************************************************************************)
MaxSteps == 3
MaxOpps == 3
MaxRisks == 2

SeqsUpTo(S, n) == UNION {[1..k -> S] : k \in 0..n}

Notes ==
    { <<>>,
      <<"A","l","l"," ","g","o","o","d"," ","s","o"," ","f","a","r",".">>,
      <<"P","o","s","i","t","i","v","e"," ","f","e","e","d","b","a","c","k"," ",
        "f","r","o","m"," ","a","l","l"," ","s","t","a","k","e","h","o","l","d","e","r","s",".">>,
      <<"B","u","d","g","e","t"," ","c","o","n","c","e","r","n"," ","a","n","d"," ",
        "c","o","m","p","e","t","i","t","o","r"," ","m","e","n","t","i","o","n","e","d",".">>,
      <<"D","e","a","l"," ","i","s"," ","o","n"," ","h","o","l","d">>,
      <<"I","n","t","e","r","n","a","l"," ","r","e","-","o","r","g">>,
      <<"S","i","m","o","n"," ","h","o","l","d","s">>,
      <<"U","p","d","a","t","e"," ","o","n"," ","h","o","l","d","i","n","g","s">>,
      <<"R","I","S","K">> }

Negotiation == <<"N","e","g","o","t","i","a","t","i","o","n">>
Proposal == <<"P","r","o","p","o","s","a","l">>
ProposalUpper == <<"P","R","O","P","O","S","A","L">>
ProposalLower == <<"p","r","o","p","o","s","a","l">>
Proposals == <<"P","r","o","p","o","s","a","l","s">>
Discovery == <<"D","i","s","c","o","v","e","r","y">>

Stages == {Negotiation, Proposal, ProposalUpper, ProposalLower, Proposals, Discovery, <<>>}

Probabilities == {150, 200, 250, 300, 590, 600, 700}
DaysInStage == {5, 7, 8, 30, 31, 45, 46}
LastContact == {2, 7, 8, 14, 15, 21, 22, 30, 31}

Opp(id, name, stage, amount, p, d, c, notes) ==
    [id |-> id, account_name |-> name, stage |-> stage, amount |-> amount,
     probability |-> p, days_in_stage |-> d, last_contact_days_ago |-> c,
     notes |-> notes]

\* the fields assess_risk does not read: account name, stage, amount
OtherFields == {<<"TestCo", Negotiation, 50000>>, <<"Acme Corp", Discovery, 0>>}

\* records for the per-record pipeline
Opportunities ==
    {Opp("OPP-TEST", f[1], f[2], f[3], p, d, c, n) :
        f \in OtherFields, p \in Probabilities, d \in DaysInStage,
        c \in LastContact, n \in Notes}

\* records for direct calls of recommend_actions and suggest_email
ActionOpps ==
    {Opp("OPP-TEST", name, st, 50000, 500, 10, c, <<>>) :
        name \in {"TestCo", "Acme Corp"}, st \in Stages, c \in {5, 21, 22}}

\* any RiskAssessment a caller may pass, its level not being checked
RiskInputs ==
    {[level |-> l, reasons |-> <<NoSignalReason>>] :
        l \in {"Low", "Medium", "High", "Critical"}}

\* any RecommendedAction a caller may pass to suggest_email
ActionInputs ==
    {[priority |-> "Medium", next_steps |-> steps] :
        steps \in SeqsUpTo({MediumSteps[1], MediumSteps[2], PricingStep}, MaxSteps)}

\* records for the aggregator
AggOpps ==
    { Opp("O1", "Acct", Discovery, 10000, 500, 10, 3, <<>>),
      Opp("O2", "Acct", Discovery, 5000, 800, 10, 3, <<>>),
      Opp("O3", "Acct", Proposal, 20000, 600, 11, 3, <<>>),
      Opp("O4", "Acct", ProposalLower, 15000, 100, 46, 3, <<>>),
      Opp("O5", "Acct", Negotiation, 0, 250, 0, 3, <<>>) }

\* cells
Num(n) == [kind |-> "num", num |-> n, text |-> ""]
NotANumber(t) == [kind |-> "text", num |-> 0, text |-> t]
Missing == [kind |-> "nan", num |-> 0, text |-> ""]
Str(t) == [kind |-> "text", num |-> 0, text |-> t]
MissingStr == [kind |-> "nan", num |-> 0, text |-> <<>>]

\* a row of the file: the eight required columns and one more, "owner"
Row(id, name, stage, amount, p, d, c, notes) ==
    [col \in Range(required_cols) \cup {"owner"} |->
        CASE col = "id" -> Str(id)
          [] col = "account_name" -> Str(name)
          [] col = "stage" -> stage
          [] col = "amount" -> amount
          [] col = "probability" -> p
          [] col = "days_in_stage" -> d
          [] col = "last_contact_days_ago" -> c
          [] col = "notes" -> notes
          [] OTHER -> Str("rep")]

AllGoodNote == <<"A","l","l"," ","g","o","o","d"," ","s","o"," ","f","a","r",".">>
HoldingsNote == <<"U","p","d","a","t","e"," ","o","n"," ","h","o","l","d","i","n","g","s">>

\* rows whose conversions succeed: probability 0.4, 25 (a percentage), -0.5
\* and 150, a missing stage, missing notes
ValidRows ==
    { Row("OPP-001", "Acme Bank", Str(Discovery), Num(50000), Num(400),
          Num(10), Num(5), Str(AllGoodNote)),
      Row("OPP-002", "NorthTel", Str(Negotiation), Num(80000), Num(25000),
          Num(45), Num(20), Str(HoldingsNote)),
      Row("OPP-003", "City Health", MissingStr, Num(120000), Num(-500),
          Num(5), Num(3), MissingStr),
      Row("OPP-004", "FinPlus", Str(Proposal), Num(30000), Num(150000),
          Num(35), Num(30), Str(<<>>)) }

\* rows with one cell that does not convert
InvalidRows ==
    { Row("OPP-005", "BadAmount", Str(Discovery), NotANumber("12k"), Num(400),
          Num(10), Num(5), Str(<<>>)),
      Row("OPP-006", "BadProbability", Str(Discovery), Num(1000), NotANumber("high"),
          Num(10), Num(5), Str(<<>>)),
      Row("OPP-007", "NoDays", Str(Discovery), Num(1000), Num(400),
          Missing, Num(5), Str(<<>>)),
      Row("OPP-008", "BadContact", Str(Discovery), Num(1000), Num(400),
          Num(10), NotANumber("soon"), Str(<<>>)) }

MaxRows == 3

\* the columns a file may have: all required ones, one more, some missing
ColumnSets ==
    { Range(required_cols),
      Range(required_cols) \cup {"owner"},
      Range(required_cols) \ {"notes"},
      Range(required_cols) \ {"id", "probability"} }

\* pd.read_csv(file): the frame of a file with these columns and rows
Frame(columns, rows) ==
    [columns |-> columns,
     rows |-> [i \in DOMAIN rows |-> [col \in columns |-> rows[i][col]]]]

Tables ==
    {Frame(columns, rows) :
        columns \in ColumnSets, rows \in SeqsUpTo(ValidRows \cup InvalidRows, MaxRows)}

NoError == [kind |-> "none", columns |-> <<>>]

(***************************************************************************)
(* The state machine                                                       *)
(***************************************************************************)
RuleVars == <<opp, risk, action, email, pc>>
AggVars == <<opps, risks, kpis, summary, dist, computed>>
IngestVars == <<csv, opportunities, insights, result, error>>

NoIngestion ==
    /\ csv = None
    /\ opportunities = <<>>
    /\ insights = <<>>
    /\ result = <<>>
    /\ error = NoError

NoAggregation ==
    /\ opps = <<>>
    /\ risks = <<>>
    /\ kpis = None
    /\ summary = None
    /\ dist = None
    /\ computed = {}

\* build_insights, one record: nothing derived yet
Init ==
    /\ opp \in Opportunities
    /\ risk = None
    /\ action = None
    /\ email = None
    /\ pc = "assess"
    /\ NoAggregation
    /\ NoIngestion

\* recommend_actions called with a record and any RiskAssessment
InitAction ==
    /\ opp \in ActionOpps
    /\ risk \in RiskInputs
    /\ action = None
    /\ email = None
    /\ pc = "recommend"
    /\ NoAggregation
    /\ NoIngestion

\* suggest_email called with a record, any RiskAssessment and any action
InitEmail ==
    /\ opp \in ActionOpps
    /\ risk \in RiskInputs
    /\ action \in ActionInputs
    /\ email = None
    /\ pc = "email"
    /\ NoAggregation
    /\ NoIngestion

\* the aggregator called with a list of records and a list of assessments
InitAgg ==
    /\ opp = None
    /\ risk = None
    /\ action = None
    /\ email = None
    /\ pc = "aggregate"
    /\ opps \in SeqsUpTo(AggOpps, MaxOpps)
    /\ risks \in SeqsUpTo(RiskInputs, MaxRisks)
    /\ kpis = None
    /\ summary = None
    /\ dist = None
    /\ computed = {}
    /\ NoIngestion

\* build_insights called with a file: nothing read yet
InitIngest ==
    /\ opp = None
    /\ risk = None
    /\ action = None
    /\ email = None
    /\ pc = "load"
    /\ NoAggregation
    /\ csv \in Tables
    /\ opportunities = <<>>
    /\ insights = <<>>
    /\ result = <<>>
    /\ error = NoError

\* risk = assess_risk(opp)
AssessRisk ==
    /\ pc = "assess"
    /\ risk' = assess_risk(opp)
    /\ pc' = "recommend"
    /\ UNCHANGED <<opp, action, email, AggVars, IngestVars>>

\* action = recommend_actions(opp, risk)
RecommendActions ==
    /\ pc = "recommend"
    /\ action' = recommend_actions(opp, risk)
    /\ pc' = "email"
    /\ UNCHANGED <<opp, risk, email, AggVars, IngestVars>>

\* email = suggest_email(opp, risk, action)
SuggestEmail ==
    /\ pc = "email"
    /\ email' = suggest_email(opp, risk, action)
    /\ pc' = "done"
    /\ UNCHANGED <<opp, risk, action, AggVars, IngestVars>>

\* kpis = compute_basic_kpis(opps)
ComputeBasicKpis ==
    /\ pc = "aggregate"
    /\ "kpis" \notin computed
    /\ kpis' = compute_basic_kpis(opps)
    /\ computed' = computed \cup {"kpis"}
    /\ UNCHANGED <<RuleVars, IngestVars, opps, risks, summary, dist>>

\* stage_df = stage_summary(opps)
StageSummary ==
    /\ pc = "aggregate"
    /\ "summary" \notin computed
    /\ summary' \in stage_summary(opps)
    /\ computed' = computed \cup {"summary"}
    /\ UNCHANGED <<RuleVars, IngestVars, opps, risks, kpis, dist>>

\* risk_counts = risk_distribution(opps, risks)
RiskDistribution ==
    /\ pc = "aggregate"
    /\ "dist" \notin computed
    /\ dist' = risk_distribution(opps, risks)
    /\ computed' = computed \cup {"dist"}
    /\ UNCHANGED <<RuleVars, IngestVars, opps, risks, kpis, summary>>

\* the check of the required columns: raise ValueError or go on to the rows
CheckColumns ==
    /\ pc = "load"
    /\ LET missing == MissingColumns(csv.columns)
       IN  IF missing # <<>>
           THEN /\ pc' = "failed"
                /\ error' = [kind |-> "Missing required columns", columns |-> missing]
           ELSE /\ pc' = "rows"
                /\ error' = error
    /\ UNCHANGED <<opp, risk, action, email, AggVars, csv, opportunities, insights, result>>

\* one iteration of  for _, row in df.iterrows():  a conversion raises, or
\* the record is appended
LoadRow ==
    /\ pc = "rows"
    /\ Len(opportunities) < Len(csv.rows)
    /\ LET row == csv.rows[Len(opportunities) + 1]
           bad == FirstFailure(row)
       IN  IF bad # ""
           THEN /\ pc' = "failed"
                /\ error' = [kind |-> "ValueError", columns |-> <<bad>>]
                /\ opportunities' = opportunities
           ELSE /\ opportunities' = AppendToList(opportunities, RowToOpportunity(row))
                /\ UNCHANGED <<pc, error>>
    /\ UNCHANGED <<opp, risk, action, email, AggVars, csv, insights, result>>

\* return opportunities, received by  opps = load_opportunities_from_csv(csv_file)
ReturnOpportunities ==
    /\ pc = "rows"
    /\ Len(opportunities) = Len(csv.rows)
    /\ opps' = opportunities
    /\ pc' = "insights"
    /\ UNCHANGED <<opp, risk, action, email, risks, kpis, summary, dist, computed,
                   IngestVars>>

\* one iteration of  for opp in opps:
BuildInsight ==
    /\ pc = "insights"
    /\ Len(insights) < Len(opps)
    /\ insights' = AppendToList(insights, Insight(opps[Len(insights) + 1]))
    /\ UNCHANGED <<RuleVars, AggVars, csv, opportunities, result, error>>

\* return insights
ReturnInsights ==
    /\ pc = "insights"
    /\ Len(insights) = Len(opps)
    /\ result' = insights
    /\ pc' = "returned"
    /\ UNCHANGED <<opp, risk, action, email, AggVars, csv, opportunities, insights, error>>

Next == AssessRisk \/ RecommendActions \/ SuggestEmail
NextAction == RecommendActions \/ SuggestEmail
NextEmail == SuggestEmail
NextAgg == ComputeBasicKpis \/ StageSummary \/ RiskDistribution
NextIngest ==
    CheckColumns \/ LoadRow \/ ReturnOpportunities \/ BuildInsight \/ ReturnInsights

Spec == Init /\ [][Next]_vars
SpecAction == InitAction /\ [][NextAction]_vars
SpecEmail == InitEmail /\ [][NextEmail]_vars
SpecAgg == InitAgg /\ [][NextAgg]_vars
SpecIngest == InitIngest /\ [][NextIngest]_vars

(***************************************************************************)
(* Properties of assess_risk (specification Spec)                          *)
(***************************************************************************)
\* risk holds the result of assess_risk(opp)
Assessed == pc \in {"recommend", "email", "done"}

BoolToInt(b) == IF b THEN 1 ELSE 0

\* the number of signals a record raises: probability, time in stage,
\* last contact, notes
SignalCount(o) ==
    BoolToInt(o.probability < 300) + BoolToInt(o.days_in_stage > 30)
        + BoolToInt(o.last_contact_days_ago > 14)
        + BoolToInt(_has_negative_signals(o.notes))

VeryLowAndStale(o) ==
    /\ o.probability < 200
    /\ (o.days_in_stage > 30 \/ o.last_contact_days_ago > 14)

\* C1: a record that does not take the healthy short-circuit is High exactly
\* when it has at least 3 reasons or probability < 0.20 with days_in_stage > 30
\* or last_contact_days_ago > 14; otherwise Medium exactly when it has at
\* least 1 reason; otherwise Low with the single canned no-signal reason.  The
\* reasons returned are never empty, for any record.
C1_LevelDecision ==
    Assessed =>
        /\ risk.reasons # <<>>
        /\ ~IsHealthy(opp) =>
              LET n == SignalCount(opp)
                  high == n >= 3 \/ VeryLowAndStale(opp)
              IN  /\ risk.level \in {"Low", "Medium", "High"}
                  /\ risk.level = "High" <=> high
                  /\ risk.level = "Medium" <=> (~high /\ n >= 1)
                  /\ risk.level = "Low" <=> (~high /\ n = 0)
                  /\ risk.level = "Low" => risk.reasons = <<NoSignalReason>>
                  /\ risk.level # "Low" => Len(risk.reasons) = n

\* a record that is High with two reasons only: very low probability and stale
C1_Witness ==
    /\ Assessed
    /\ ~IsHealthy(opp)
    /\ risk.level = "High"
    /\ Len(risk.reasons) = 2

\* C2: a record with probability >= 0.60, days_in_stage <= 7,
\* last_contact_days_ago <= 7 and notes without a negative token or phrase is
\* Low with exactly one reason, whatever its stage.
C2_HealthyIsLow ==
    ( /\ Assessed
      /\ opp.probability >= 600
      /\ opp.days_in_stage <= 7
      /\ opp.last_contact_days_ago <= 7
      /\ ~_has_negative_signals(opp.notes) )
    => (risk.level = "Low" /\ Len(risk.reasons) = 1)

\* the record of test_assess_risk_low_when_no_signals, at the boundary values
C2_Witness ==
    /\ Assessed
    /\ opp.account_name = "Acme Corp"
    /\ opp.amount = 0
    /\ opp.probability = 600
    /\ opp.days_in_stage = 7
    /\ opp.last_contact_days_ago = 7
    /\ opp.notes = <<"P","o","s","i","t","i","v","e"," ","f","e","e","d","b","a","c","k"," ",
                     "f","r","o","m"," ","a","l","l"," ","s","t","a","k","e","h","o","l","d","e","r","s",".">>
    /\ risk.level = "Low"

\* the reasons accumulated before the level decision: the Low result carries
\* the canned reason in place of the empty list
Accumulated == IF risk.level = "Low" THEN <<>> ELSE risk.reasons

\* the signal a reason belongs to, in the order of the code
SignalOf(reason) ==
    IF reason \in {VeryLowProbReason, LowProbReason} THEN 1
    ELSE IF reason \in {Stuck45Reason, Stage30Reason} THEN 2
    ELSE IF reason \in {Contact30Reason, Contact14Reason} THEN 3
    ELSE IF reason = NotesReason THEN 4
    ELSE 0

BoundaryRecord ==
    /\ opp.probability = 200
    /\ opp.days_in_stage = 45
    /\ opp.last_contact_days_ago = 30
    /\ opp.notes = <<"B","u","d","g","e","t"," ","c","o","n","c","e","r","n"," ","a","n","d"," ",
                     "c","o","m","p","e","t","i","t","o","r"," ","m","e","n","t","i","o","n","e","d",".">>

\* C3: without the healthy short-circuit the reasons hold at most one reason
\* per signal, in the order probability, time in stage, last contact, notes,
\* each under its strict threshold; the record probability = 0.2,
\* days_in_stage = 45, last_contact_days_ago = 30 with budget and competitor
\* in the notes is High with the "Low win probability" reason.
C3_ReasonAccumulation ==
    (Assessed /\ ~IsHealthy(opp)) =>
        LET rs == Accumulated
            has(r) == \E i \in DOMAIN rs : rs[i] = r
        IN  /\ \A i \in DOMAIN rs : SignalOf(rs[i]) # 0
            /\ \A i, j \in DOMAIN rs : i < j => SignalOf(rs[i]) < SignalOf(rs[j])
            /\ has(VeryLowProbReason) <=> opp.probability < 200
            /\ has(LowProbReason) <=> (opp.probability >= 200 /\ opp.probability < 300)
            /\ has(Stuck45Reason) <=> opp.days_in_stage > 45
            /\ has(Stage30Reason) <=> (opp.days_in_stage > 30 /\ opp.days_in_stage <= 45)
            /\ has(Contact30Reason) <=> opp.last_contact_days_ago > 30
            /\ has(Contact14Reason) <=>
                   (opp.last_contact_days_ago > 14 /\ opp.last_contact_days_ago <= 30)
            /\ has(NotesReason) <=> _has_negative_signals(opp.notes)
            /\ BoundaryRecord => (risk.level = "High" /\ has(LowProbReason))

C3_Witness ==
    /\ Assessed
    /\ BoundaryRecord
    /\ risk.level = "High"
    /\ Len(risk.reasons) = 4

(***************************************************************************)
(* Properties of recommend_actions (specification SpecAction)              *)
(***************************************************************************)
\* action holds the result of recommend_actions(opp, risk)
Recommended == pc \in {"email", "done"}

\* C4 as stated: the priority equals the risk level passed in, whatever the
\* level is.
C4_PriorityEqualsLevel ==
    Recommended => action.priority = risk.level

\* C4, amended: the priority equals the risk level passed in when the level is
\* Low, Medium or High, and is Low for any other level.
C4_PriorityMirrorsKnownLevel ==
    Recommended =>
        IF risk.level \in {"Low", "Medium", "High"}
        THEN action.priority = risk.level
        ELSE action.priority = "Low"

C4_Witness ==
    /\ Recommended
    /\ risk.level = "Critical"
    /\ action.priority = "Low"

\* the two base steps of a priority
BaseStepsOf(priority) ==
    IF priority = "High" THEN HighSteps
    ELSE IF priority = "Medium" THEN MediumSteps
    ELSE LowSteps

\* the stage labels of the model that read negotiation or proposal once
\* lower-cased
PricingLabels == {Negotiation, Proposal, ProposalUpper, ProposalLower}

\* C5: next_steps is the two base steps of the priority, then the
\* pricing-review step iff the stage lower-cased is negotiation or proposal,
\* then the re-engagement step iff last_contact_days_ago > 21, in that order;
\* it has between 2 and 4 entries.
C5_StepOrder ==
    Recommended =>
        LET ns == action.next_steps
            pricing == opp.stage \in PricingLabels
            stale == opp.last_contact_days_ago > 21
        IN  /\ Len(ns) = 2 + BoolToInt(pricing) + BoolToInt(stale)
            /\ Len(ns) >= 2 /\ Len(ns) <= 4
            /\ SubSeq(ns, 1, 2) = BaseStepsOf(action.priority)
            /\ pricing => ns[3] = PricingStep
            /\ stale => ns[Len(ns)] = ReengageStep
            /\ ~pricing => \A i \in DOMAIN ns : ns[i] # PricingStep
            /\ ~stale => \A i \in DOMAIN ns : ns[i] # ReengageStep

\* an upper-case stage and a stale contact: all four steps
C5_Witness ==
    /\ Recommended
    /\ opp.stage = ProposalUpper
    /\ opp.last_contact_days_ago = 22
    /\ Len(action.next_steps) = 4

(***************************************************************************)
(* Properties of suggest_email (specification SpecEmail)                   *)
(***************************************************************************)
\* the lines of a text that are bullets, in order
BulletLines(text) == SelectSeq(text, LAMBDA line : line # <<>> /\ Head(line) = "- ")

\* C6: the body has exactly min(2, len(next_steps)) bullets, which are the
\* first entries of next_steps in their order, also for an action with 0 or 1
\* next steps.
C6_BulletCount ==
    pc = "done" =>
        LET bullets == BulletLines(email.body)
            ns == action.next_steps
        IN  /\ Len(bullets) = Min(2, Len(ns))
            /\ \A i \in DOMAIN bullets : bullets[i] = <<"- ", ns[i]>>

\* an action without next steps: a body without bullets
C6_Witness ==
    /\ pc = "done"
    /\ action.next_steps = <<>>
    /\ BulletLines(email.body) = <<>>

(***************************************************************************)
(* Properties of the aggregator (specification SpecAgg)                    *)
(***************************************************************************)
\* the sum of f over the finite set S
RECURSIVE SumFun(_, _)
SumFun(f, S) ==
    IF S = {} THEN 0
    ELSE LET x == CHOOSE y \in S : TRUE
         IN  f[x] + SumFun(f, S \ {x})

StageLabels == {opps[i].stage : i \in DOMAIN opps}

\* C7: on a non-empty collection the total_amount of the rows of stage_summary
\* sum to total_pipeline of compute_basic_kpis, there is exactly one row per
\* distinct stage label, and the counts sum to the number of records.
C7_StageTotals ==
    ({"kpis", "summary"} \subseteq computed /\ opps # <<>>) =>
        /\ SumFun([i \in DOMAIN summary |-> summary[i].total_amount], DOMAIN summary)
               = kpis.total_pipeline
        /\ {summary[i].stage : i \in DOMAIN summary} = StageLabels
        /\ Len(summary) = Cardinality(StageLabels)
        /\ SumFun([i \in DOMAIN summary |-> summary[i].count], DOMAIN summary)
               = Len(opps)

\* three records under two labels that differ from a third only by case
C7_Witness ==
    /\ {"kpis", "summary"} \subseteq computed
    /\ Len(opps) = 3
    /\ StageLabels = {Proposal, ProposalLower}
    /\ Len(summary) = 2

\* C8 as stated: the counts returned by risk_distribution(opps, risks) on a
\* non-empty record collection sum to len(opps).
C8_CountsSumToRecords ==
    ("dist" \in computed /\ opps # <<>>) =>
        SumFun(dist, DOMAIN dist) = Len(opps)

\* C8, amended: the counts sum to the number of assessments, len(risks), and
\* so to len(opps) when risks holds one assessment per record.
C8_CountsSumToAssessments ==
    "dist" \in computed =>
        /\ SumFun(dist, DOMAIN dist) = Len(risks)
        /\ Len(risks) = Len(opps) => SumFun(dist, DOMAIN dist) = Len(opps)

\* records and assessments in parallel, one of them with an unlisted level
C8_Witness ==
    /\ "dist" \in computed
    /\ Len(opps) = 2
    /\ Len(risks) = 2
    /\ \E i \in DOMAIN risks : risks[i].level = "Critical"

\* C9: the mapping always has the keys Low, Medium and High, each key holds
\* the number of assessments of that level (0 when there is none), and a
\* level outside the three is counted under its own key only.
C9_BaseKeys ==
    "dist" \in computed =>
        /\ {"Low", "Medium", "High"} \subseteq DOMAIN dist
        /\ DOMAIN dist = {"Low", "Medium", "High"} \cup {risks[i].level : i \in DOMAIN risks}
        /\ \A k \in DOMAIN dist :
               dist[k] = Cardinality({i \in DOMAIN risks : risks[i].level = k})

\* assessments without a High member, one of an unlisted level
C9_Witness ==
    /\ "dist" \in computed
    /\ risks # <<>>
    /\ \A i \in DOMAIN risks : risks[i].level # "High"
    /\ \E i \in DOMAIN risks : risks[i].level = "Critical"
    /\ dist["High"] = 0
    /\ dist["Critical"] >= 1

\* C10: the KPIs are the number of records, the sum of amount, the sum of
\* amount x probability and the sum of days_in_stage divided by the number of
\* records; all four are 0 on an empty collection.
C10_Kpis ==
    "kpis" \in computed =>
        IF opps = <<>>
        THEN /\ kpis.total_opportunities = 0
             /\ kpis.total_pipeline = 0
             /\ kpis.weighted_pipeline = 0
             /\ kpis.avg_days_in_stage.num = 0
             /\ kpis.avg_days_in_stage.den # 0
        ELSE /\ kpis.total_opportunities = Len(opps)
             /\ kpis.total_pipeline =
                    SumFun([i \in DOMAIN opps |-> opps[i].amount], DOMAIN opps)
             /\ kpis.weighted_pipeline =
                    SumFun([i \in DOMAIN opps |-> opps[i].amount * opps[i].probability],
                           DOMAIN opps)
             /\ kpis.avg_days_in_stage.den > 0
             /\ kpis.avg_days_in_stage.num * Len(opps) =
                    kpis.avg_days_in_stage.den
                        * SumFun([i \in DOMAIN opps |-> opps[i].days_in_stage], DOMAIN opps)

\* an average that is not a whole number of days
C10_Witness ==
    /\ "kpis" \in computed
    /\ Len(opps) >= 2
    /\ kpis.avg_days_in_stage.den > 1

(***************************************************************************)
(* Properties of _has_negative_signals and of the healthy short-circuit    *)
(* (specification Spec)                                                    *)
(***************************************************************************)
\* the tokens of the lower-cased notes
NoteTokens(notes) == Range(Tokens(Lower(notes)))

NegativeWords == Range(NEGATIVE_SINGLE_WORDS)

\* a negative single word occurs inside a longer word of the notes, and no
\* negative single word is a word of the notes
EmbeddedOnly(notes) ==
    /\ \E w \in NegativeWords : \E t \in NoteTokens(notes) :
           t # w /\ IsSubstring(w, t)
    /\ NoteTokens(notes) \cap NegativeWords = {}

\* sub occurs in s as words of its own: not preceded and not followed by a
\* word character
OccursAsWords(sub, s) ==
    \E i \in 0..(Len(s) - Len(sub)) :
        /\ SubSeq(s, i + 1, i + Len(sub)) = sub
        /\ (i = 0 \/ ~IsWordChar(s[i]))
        /\ (i + Len(sub) = Len(s) \/ ~IsWordChar(s[i + Len(sub) + 1]))

\* one of the listed phrases was written in the notes
PhraseWritten(notes) ==
    \E k \in DOMAIN NEGATIVE_PHRASES : OccursAsWords(NEGATIVE_PHRASES[k], Lower(notes))

\* C13: when a negative single word occurs only embedded in a longer word and
\* no negative single word is a whole token, _has_negative_signals returns
\* False unless one of the listed phrases was written in the notes.
C13_EmbeddedWordNoSignal ==
    (Assessed /\ EmbeddedOnly(opp.notes) /\ ~PhraseWritten(opp.notes))
        => ~_has_negative_signals(opp.notes)

\* the level and the reasons of the general path: the accumulation of the
\* reasons followed by the level decision, without the early return
GeneralPath(o) == DecideLevel(o, BuildReasons(o))

\* the records of the early return, written out
ShortCircuited ==
    /\ opp.probability >= 600
    /\ opp.days_in_stage <= 7
    /\ opp.last_contact_days_ago <= 7
    /\ NotesReason \notin Range(BuildReasons(opp))

\* C15: the level returned by assess_risk is the level of the general path;
\* only the text of the single Low reason of a short-circuited record differs.
C15_ShortCircuitKeepsLevel ==
    Assessed =>
        /\ risk.level = GeneralPath(opp).level
        /\ IF ShortCircuited
           THEN /\ risk.reasons = <<HealthyReason>>
                /\ GeneralPath(opp).reasons = <<NoSignalReason>>
           ELSE risk = GeneralPath(opp)

\* a record that takes the early return
C15_Witness ==
    /\ Assessed
    /\ ShortCircuited
    /\ risk = [level |-> "Low", reasons |-> <<HealthyReason>>]

(***************************************************************************)
(* Properties of ingestion and build_insights (specification SpecIngest)   *)
(***************************************************************************)
\* C11: every record produced by ingestion has its probability in [0, 1]
\* (0 to 1000 thousandths).
C11_ProbabilityInUnitInterval ==
    \A i \in DOMAIN opportunities :
        opportunities[i].probability >= 0 /\ opportunities[i].probability <= 1000

\* the required columns the file lacks
MissingSet == {c \in Range(required_cols) : c \notin csv.columns}

\* a row with an amount, probability or day field that is no number
NonNumericRow(row) ==
    \/ row["amount"].kind = "text"
    \/ row["probability"].kind = "text"
    \/ row["days_in_stage"].kind # "num"
    \/ row["last_contact_days_ago"].kind # "num"

HasNonNumericRow == \E i \in DOMAIN csv.rows : NonNumericRow(csv.rows[i])

\* C12: with a required column absent the call fails with an error naming
\* exactly the missing required columns and no row is processed; with a
\* non-numeric amount, probability or day field in any row the call fails;
\* a failed call hands no record to the caller, whatever rows came before.
C12_NoPartialSuccess ==
    /\ pc = "failed" =>
          /\ opps = <<>> /\ insights = <<>> /\ result = <<>>
          /\ error # NoError
    /\ (MissingSet # {} /\ pc # "load") =>
          /\ pc = "failed"
          /\ error.kind = "Missing required columns"
          /\ Range(error.columns) = MissingSet
          /\ Len(error.columns) = Cardinality(MissingSet)
          /\ opportunities = <<>>
    /\ (MissingSet = {} /\ HasNonNumericRow) => pc \in {"load", "rows", "failed"}
    /\ (MissingSet = {} /\ pc = "failed") =>
          /\ error.kind = "ValueError"
          /\ Len(opportunities) < Len(csv.rows)
          /\ NonNumericRow(csv.rows[Len(opportunities) + 1])

\* a failure on the third row, after two rows that were converted
C12_Witness ==
    /\ pc = "failed"
    /\ error.kind = "ValueError"
    /\ Len(opportunities) = 2
    /\ result = <<>>

\* the value ingestion gives a raw probability: raw / 100 above 1.0
Normalized(raw) == IF raw > 1000 THEN raw \div 100 ELSE raw

\* the record of a row, field by field
RecordOfRow(o, row) ==
    /\ o.id = row["id"].text
    /\ o.account_name = row["account_name"].text
    /\ o.stage = (IF row["stage"].kind = "nan" THEN <<"n","a","n">> ELSE row["stage"].text)
    /\ o.amount = row["amount"].num
    /\ o.probability = Normalized(row["probability"].num)
    /\ o.days_in_stage = row["days_in_stage"].num
    /\ o.last_contact_days_ago = row["last_contact_days_ago"].num
    /\ o.notes = (IF row["notes"].kind = "nan" THEN <<>> ELSE row["notes"].text)

ValidTable == MissingSet = {} /\ ~HasNonNumericRow

\* C14: for a valid table of n rows ingestion returns n records in row order
\* and build_insights returns n insights, the i-th bundling the i-th record
\* with its assess_risk, recommend_actions and suggest_email.
C14_OrderPreserved ==
    /\ (ValidTable /\ pc \in {"insights", "returned"}) =>
          /\ Len(opps) = Len(csv.rows)
          /\ \A i \in DOMAIN opps : RecordOfRow(opps[i], csv.rows[i])
    /\ ValidTable => pc # "failed"
    /\ pc = "returned" =>
          /\ ValidTable
          /\ Len(result) = Len(csv.rows)
          /\ \A i \in DOMAIN result :
                /\ result[i].opportunity = opps[i]
                /\ RecordOfRow(result[i].opportunity, csv.rows[i])
                /\ result[i].risk = assess_risk(opps[i])
                /\ result[i].action = recommend_actions(opps[i], result[i].risk)
                /\ result[i].email = suggest_email(opps[i], result[i].risk, result[i].action)

\* three different rows returned as three insights
C14_Witness ==
    /\ pc = "returned"
    /\ Len(result) = 3
    /\ result[1].opportunity.id = "OPP-004"
    /\ result[2].opportunity.id = "OPP-002"
    /\ result[3].opportunity.id = "OPP-003"

=============================================================================
